---- MODULE Spec2Model ----
(***************************************************************************)
(* CineMatch (notebooks_and_related_files/recommendation/APP/app.py):      *)
(* the load of the artifacts, the similarity lookup (recommend), the TMDB  *)
(* gateway with its memoized id resolution and its details bundle, the     *)
(* retrying HTTP session and the recently-viewed list.                     *)
(* Rows and columns are numbered from 1 here and from 0 in the code.       *)
(***************************************************************************)
EXTENDS Integers, Sequences, FiniteSets, TLC

\* ---------------------------------------------------------------- bounds
\* Similarity scores are drawn from 0..MaxScore.
MaxScore == 2
\* lru_cache(maxsize=4096), scaled down: the number of entries the
\* resolution cache holds.
maxsize == 2
\* update_history is called at most MaxCalls times, with one of NumViewed ids.
MaxCalls == 7
NumViewed == 3
\* The artifacts on disk at startup hold up to MaxLoad rows.
MaxLoad == 3

\* ------------------------------------------------------ program constants
\* distances[1:6]: the slice keeps five entries after the first.
TopN == 5
\* Matrices of up to TopN + 2 columns: the slice fills and leaves one out.
MaxSim == TopN + 2

\* ------------------------------------------------------------- the data
Titles == <<"A", "B", "C", "D", "E", "F", "G", "H", "I">>
ImdbIds == <<"tt1", "tt2", "tt3", "tt4", "tt5", "tt6", "tt7", "tt8", "tt9">>
\* A title no row of the table carries.
NoSuchTitle == "Z"

None == <<>>

VARIABLES
    movies,      \* the movie table: a sequence of rows
    similarity,  \* the similarity matrix: a sequence of rows of scores
    rec,         \* the request to recommend and how it ended
    cache,       \* the lru_cache of _resolve_tmdb_id_from_imdb
    gw,          \* the last gateway call and how it ended
    recency,     \* history: the ids resolved, least recently resolved first
    track,       \* history: per id, what its resolutions did since it was
                 \* last evicted
    http,        \* one GET of the retrying session, answer by answer
    history,     \* st.session_state.history
    calls,       \* history: the ids update_history was called with
    app,         \* the script's run: the artifact files, whether the load
                 \* is still to run, has halted the run (st.stop) or has let
                 \* it through to the page, and the error shown
    provider     \* the JSON the provider holds for a movie's details: per
                 \* optional field, whether it is there, absent or null

vars == <<movies, similarity, rec, cache, gw, recency, track, http, history, calls, app,
          provider>>
\* What the gateway, the session and the page leave alone.
otherVars == <<http, history, calls, app, provider>>

Min(a, b) == IF a <= b THEN a ELSE b


\* ------------------------------------------- the outcome of one session GET
\* requests_retry_session().get(url, timeout=20) either raises (exc is the
\* exception's name) or returns a response with a status and a body.
Raised(e) == [exc |-> e, status |-> 0, body |-> "none"]
Response(st, b) == [exc |-> "", status |-> st, body |-> b]

\* Statuses a returned response can carry: 200, and those the session does
\* not retry (a retried status ends in RetryError, never in a response).
FinalErrorStatuses == {404, 429}

\* Every way a GET can end, for an endpoint whose 200 bodies are `bodies`.
Outcomes(bodies) ==
    {Raised("ConnectionError"), Raised("RetryError")}
        \cup {Response(st, "none") : st \in FinalErrorStatuses}
        \cup {Response(200, b) : b \in bodies}

\* 200 bodies of /find: not JSON; no movie_results (absent, null or empty);
\* a first result without "id"; a first result with it.
FindBodies == {"badjson", "missing", "noid", "ok"}
\* 200 bodies of /movie/{id}: not JSON; no poster_path; a poster_path.
MovieBodies == {"badjson", "missing", "ok"}
\* 200 bodies of /movie/{id}/videos: not JSON; no YouTube trailer among the
\* results; a YouTube trailer entry without "key"; one with it.
VideoBodies == {"badjson", "missing", "nokey", "ok"}
\* 200 bodies of /movie/{id}?append_to_response=credits,videos: not JSON;
\* a field present but null where the code computes with it (budget: null
\* compared with 0, cast: null sliced); optional fields absent; all present.
\* The fields of a JSON body are those of `provider`.
DetailBodies == {"badjson", "null", "absent", "ok"}

\* The provider's numeric id for an imdb id.
TmdbIdOf(imdb) == <<"tmdb", imdb>>

\* A value or an exception, as an expression of the code leaves it.
Val(v) == [exc |-> "", value |-> v]
Exc(e) == [exc |-> e, value |-> None]

\* try: ... except Exception: print(...) followed by `return None`.
CatchUncaught(r) == r
Catch(r) == IF r.exc # "" THEN Val(None) ELSE r

\* ------------------------------------------------- _resolve_tmdb_id_from_imdb
\* Lines 66-73, inside the try.
ResolveTry(imdb, o) ==
    IF o.exc # "" THEN Exc(o.exc)
    ELSE IF o.status # 200 THEN Val(None)
    ELSE IF o.body = "badjson" THEN Exc("JSONDecodeError")
    ELSE IF o.body = "missing" THEN Val(None)
    ELSE IF o.body = "noid" THEN Val(None)
    ELSE Val(TmdbIdOf(imdb))

\* The undecorated function, lines 64-76: what it returns or raises, and
\* the number of session GETs it made.
ResolveBody(imdb, o) ==
    IF imdb = "" THEN [exc |-> "", value |-> None, outbound |-> 0]
    ELSE LET r == Catch(ResolveTry(imdb, o))
         IN  [exc |-> r.exc, value |-> r.value, outbound |-> 1]

\* functools.lru_cache(maxsize): the cache is a sequence of [key, value],
\* least recently used first.
CacheKeys(c) == {c[k].key : k \in 1..Len(c)}
CachePos(c, key) == CHOOSE k \in 1..Len(c) : c[k].key = key
CacheDrop(c, pos) == [k \in 1..(Len(c) - 1) |-> IF k < pos THEN c[k] ELSE c[k + 1]]

\* A hit returns the stored value and makes the entry the most recent.
CacheHitNoTouch(c, key) ==
    [value |-> c[CachePos(c, key)].value, cache |-> c]
CacheHit(c, key) ==
    LET p == CachePos(c, key)
    IN  [value |-> c[p].value, cache |-> Append(CacheDrop(c, p), c[p])]

\* A miss stores the computed value as the most recent entry; a full cache
\* first drops its least recently used one.
CacheStoreSkipNone(c, key, v) ==
    IF v = None THEN c
    ELSE Append(IF Len(c) >= maxsize THEN Tail(c) ELSE c, [key |-> key, value |-> v])
CacheStore(c, key, v) ==
    Append(IF Len(c) >= maxsize THEN Tail(c) ELSE c, [key |-> key, value |-> v])

\* The decorated function, line 58-59.  An exception of the body would be
\* passed on and nothing stored.  ResolveRetryFailed is a memo that trusts
\* only the ids it resolved: a stored None is computed anew.
ResolveRetryFailed(c, imdb, o) ==
    IF imdb \in CacheKeys(c) /\ c[CachePos(c, imdb)].value # None
    THEN LET h == CacheHit(c, imdb)
         IN  [exc |-> "", value |-> h.value, cache |-> h.cache, outbound |-> 0]
    ELSE LET b == ResolveBody(imdb, o)
             rest == IF imdb \in CacheKeys(c) THEN CacheDrop(c, CachePos(c, imdb)) ELSE c
         IN  [exc |-> b.exc, value |-> b.value,
              cache |-> IF b.exc # "" THEN c ELSE CacheStore(rest, imdb, b.value),
              outbound |-> b.outbound]
Resolve(c, imdb, o) ==
    IF imdb \in CacheKeys(c)
    THEN LET h == CacheHit(c, imdb)
         IN  [exc |-> "", value |-> h.value, cache |-> h.cache, outbound |-> 0]
    ELSE LET b == ResolveBody(imdb, o)
         IN  [exc |-> b.exc, value |-> b.value,
              cache |-> IF b.exc # "" THEN c ELSE CacheStore(c, imdb, b.value),
              outbound |-> b.outbound]

\* ----------------------------------------------------------- fetch_poster_by_imdb
\* Lines 83-89, inside the try.
PosterTry(tmdb, o) ==
    IF o.exc # "" THEN Exc(o.exc)
    ELSE IF o.status # 200 THEN Val(None)
    ELSE IF o.body = "badjson" THEN Exc("JSONDecodeError")
    ELSE IF o.body = "missing" THEN Val(None)
    ELSE Val(<<"https://image.tmdb.org/t/p/w500", tmdb>>)

\* A gateway operation that resolves the id (outside its try) and, when the
\* id resolved, makes one more GET whose handling is `try`.
Gateway(r, try) ==
    IF r.exc # ""
    THEN [exc |-> r.exc, value |-> None, cache |-> r.cache, find |-> r.outbound, gets |-> 0, resolved |-> r.value]
    ELSE IF r.value = None
    THEN [exc |-> "", value |-> None, cache |-> r.cache, find |-> r.outbound, gets |-> 0, resolved |-> r.value]
    ELSE LET t == Catch(try)
         IN  [exc |-> t.exc, value |-> t.value, cache |-> r.cache, find |-> r.outbound, gets |-> 1, resolved |-> r.value]

FetchPoster(c, imdb, oFind, oGet) ==
    LET r == Resolve(c, imdb, oFind) IN Gateway(r, PosterTry(r.value, oGet))

\* ---------------------------------------------------------- fetch_trailer_by_imdb
\* Lines 99-104, inside the try: the first YouTube trailer of the list.
TrailerTry(tmdb, o) ==
    IF o.exc # "" THEN Exc(o.exc)
    ELSE IF o.status # 200 THEN Val(None)
    ELSE IF o.body = "badjson" THEN Exc("JSONDecodeError")
    ELSE IF o.body = "missing" THEN Val(None)
    ELSE IF o.body = "nokey" THEN Exc("KeyError")
    ELSE Val(<<"https://youtu.be/", tmdb>>)

FetchTrailer(c, imdb, oFind, oGet) ==
    LET r == Resolve(c, imdb, oFind) IN Gateway(r, TrailerTry(r.value, oGet))

\* ------------------------------------------------------ get_movie_details_by_imdb
\* The optional fields of the details JSON that the bundle is built from:
\* vote_average stands for the fields handed on by data.get alone; cast is
\* credits.cast, whose one entry has a name and a profile_path.
DetailFields ==
    {"vote_average", "cast", "name", "profile_path", "genres", "budget", "revenue",
     "spoken_languages"}
\* A field is there with a value, is not in the JSON, or is there as null.
FieldStates == {"present", "missing", "null"}
DetailData == [DetailFields -> FieldStates]
AllFields(st) == [f \in DetailFields |-> st]

\* The kind of a JSON body: all its fields there; a null where lines 127,
\* 137 and 138 compute (cast sliced, budget and revenue compared with 0);
\* otherwise some field absent or null.
BodyOf(data) ==
    IF data = AllFields("present") THEN "ok"
    ELSE IF "null" \in {data["cast"], data["budget"], data["revenue"]} THEN "null"
    ELSE "absent"

\* data.get(f): the value, or None ("None" inside a bundle).
Get(data, f) == IF data[f] = "present" THEN f ELSE "None"
\* `x if data.get(f) else "N/A"`: lines 136 and 139.
OrNA(data, f, x) == IF data[f] = "present" THEN x ELSE "N/A"

\* Lines 127-134: the entries of the cast, [] when credits or cast is not
\* in the JSON.
CastDetails(data) ==
    IF data["cast"] = "missing" THEN <<>>
    ELSE <<[name |-> Get(data, "name"),
            profile |-> IF data["profile_path"] = "present"
                        THEN "https://image.tmdb.org/t/p/w500{profile_path}"
                        ELSE "None"]>>

\* The bundle of lines 140-153.
Bundle(tmdb, director_name, data) ==
    [tmdb |-> tmdb,
     director |-> IF director_name # "" THEN director_name ELSE "N/A",
     rating |-> Get(data, "vote_average"),
     cast |-> CastDetails(data),
     genres |-> OrNA(data, "genres", "joined names"),
     budget |-> OrNA(data, "budget", "${budget:,}"),
     revenue |-> OrNA(data, "revenue", "${revenue:,}"),
     available_in |-> OrNA(data, "spoken_languages", "joined english_names")]

\* Lines 118-153, inside the try: None[:5] and None > 0 raise TypeError.
DetailsTry(tmdb, director_name, o, data) ==
    IF o.exc # "" THEN Exc(o.exc)
    ELSE IF o.status # 200 THEN Val(None)
    ELSE IF o.body = "badjson" THEN Exc("JSONDecodeError")
    ELSE IF data["cast"] = "null" THEN Exc("TypeError")
    ELSE IF data["budget"] = "null" THEN Exc("TypeError")
    ELSE IF data["revenue"] = "null" THEN Exc("TypeError")
    ELSE Val(Bundle(tmdb, director_name, data))

GetMovieDetails(c, imdb, director_name, oFind, oGet, data) ==
    LET r == Resolve(c, imdb, oFind)
    IN  Gateway(r, DetailsTry(r.value, director_name, oGet, data))

\* ------------------------------------------------------------ gateway calls
\* The director handed to get_movie_details_by_imdb.
Directors == {"", "Christopher Nolan"}

\* What a GET ended in: the exception, a status other than 200, or the kind
\* of the 200 body.
Class(o) == IF o.exc # "" THEN o.exc ELSE IF o.status # 200 THEN "non200" ELSE o.body

\* A GET the call does not come to make.
NotMade == Response(0, "none")
\* The find GET is made when the id is not empty and not in the cache.
FindOutcomes(id) ==
    IF id = "" \/ id \in CacheKeys(cache) THEN {NotMade} ELSE Outcomes(FindBodies)
\* The second GET is made when the id resolved to something.
GetOutcomes(id, oFind, bodies) ==
    IF Resolve(cache, id, oFind).value = None THEN {NotMade} ELSE Outcomes(bodies)

GwIdle == [op |-> "none", id |-> "", exc |-> "", value |-> None,
           cFind |-> "none", cGet |-> "none", pFind |-> "none"]

\* The call as recorded: the GETs it did not make are "none"; pFind is what
\* the provider had for the find GET, made or not.
Called(op, id, g, oFind, oGet) ==
    [op |-> op, id |-> id, exc |-> g.exc, value |-> g.value,
     cFind |-> IF g.find = 1 THEN Class(oFind) ELSE "none",
     cGet |-> IF g.gets = 1 THEN Class(oGet) ELSE "none",
     pFind |-> IF oFind = NotMade THEN "none" ELSE Class(oFind)]

\* _resolve_tmdb_id_from_imdb(id), the find GET ending in oFind.
ResolveStep(id, oFind) ==
    LET r == Resolve(cache, id, oFind)
        g == [exc |-> r.exc, value |-> r.value, find |-> r.outbound, gets |-> 0]
    IN  /\ gw' = Called("resolve", id, g, oFind, NotMade)
        /\ cache' = r.cache
        /\ UNCHANGED <<movies, similarity, rec, otherVars>>

ResolveCall(id, oFind) ==
    /\ ResolveStep(id, oFind)
    /\ UNCHANGED <<recency, track>>

\* fetch_poster_by_imdb(id).
PosterCall(id, oFind, oGet) ==
    LET g == FetchPoster(cache, id, oFind, oGet)
    IN  /\ gw' = Called("poster", id, g, oFind, oGet)
        /\ cache' = g.cache
        /\ UNCHANGED <<movies, similarity, rec, recency, track, otherVars>>

\* fetch_trailer_by_imdb(id).
TrailerCall(id, oFind, oGet) ==
    LET g == FetchTrailer(cache, id, oFind, oGet)
    IN  /\ gw' = Called("trailer", id, g, oFind, oGet)
        /\ cache' = g.cache
        /\ UNCHANGED <<movies, similarity, rec, recency, track, otherVars>>

\* get_movie_details_by_imdb(id, director_name).
DetailsCall(id, director_name, oFind, oGet) ==
    LET g == GetMovieDetails(cache, id, director_name, oFind, oGet, provider)
    IN  /\ gw' = Called("details", id, g, oFind, oGet)
        /\ cache' = g.cache
        /\ UNCHANGED <<movies, similarity, rec, recency, track, otherVars>>

\* History of the resolutions, kept beside the program's state.
Untracked(evicted) == [resolves |-> 0, out |-> 0, first |-> None, evicted |-> evicted]

\* After a resolution of `id` with result r: the id becomes the most recently
\* resolved; its resolutions and its find GETs are counted (up to 2, "more
\* than one") and its first value kept; an id the cache dropped starts over.
Observe(id, r) ==
    /\ recency' = Append(SelectSeq(recency, LAMBDA x : x # id), id)
    /\ track' = [x \in DOMAIN track |->
                   IF x = id
                   THEN [resolves |-> Min(2, track[x].resolves + 1),
                         out |-> Min(2, track[x].out + r.outbound),
                         first |-> IF track[x].resolves = 0 THEN r.value
                                   ELSE track[x].first,
                         evicted |-> track[x].evicted]
                   ELSE IF x \in CacheKeys(cache) /\ x \notin CacheKeys(r.cache)
                   THEN Untracked(TRUE)
                   ELSE track[x]]

\* A resolution, with its history kept.
ResolveTracked(id, oFind) ==
    /\ ResolveStep(id, oFind)
    /\ Observe(id, Resolve(cache, id, oFind))

\* ------------------------------------------------------ requests_retry_session
\* retries=5: the total, read and connect budgets of the Retry.
retries == 5
\* status_forcelist=(500, 502, 504).
status_forcelist == {500, 502, 504}
\* Retry() is given no respect_retry_after_header, which stays True: a
\* response of one of these statuses that carries Retry-After is retried.
RETRY_AFTER_STATUS_CODES == {413, 429, 503}

\* What one attempt can meet: no connection, no answer read, or a response
\* with a status and, perhaps, a Retry-After header.
Failure(e) == [err |-> e, status |-> 0, retry_after |-> FALSE]
Answer(st, ra) == [err |-> "", status |-> st, retry_after |-> ra]
Answers ==
    {Failure("ConnectError"), Failure("ReadError")}
        \cup {Answer(st, FALSE) : st \in {200, 404, 429} \cup status_forcelist}
        \cup {Answer(st, TRUE) : st \in {404, 429}}

\* Retry.is_retry for a GET: a status of the forcelist, or, while the total
\* is not zero, a Retry-After status that carries the header.
IsRetryAnyError(total, st, ra) == st # 200
IsRetry(total, st, ra) ==
    \/ st \in status_forcelist
    \/ total # 0 /\ ra /\ st \in RETRY_AFTER_STATUS_CODES

HttpIdle == [state |-> "idle", trace |-> <<>>, total |-> retries, connect |-> retries,
             read |-> retries, outcome |-> NotMade]

\* session.get(url, timeout=20) is called.
HttpGet ==
    /\ http.state = "idle"
    /\ http' = [http EXCEPT !.state = "sending"]
    /\ UNCHANGED <<movies, similarity, rec, cache, gw, recency, track, history, calls, app, provider>>

\* Retry.increment: the budgets after an attempt that is to be retried.
Increment(h, a) ==
    [h EXCEPT !.total = @ - 1,
              !.connect = IF a.err = "ConnectError" THEN @ - 1 ELSE @,
              !.read = IF a.err = "ReadError" THEN @ - 1 ELSE @]
\* Retry.is_exhausted.
IsExhausted(h) == h.total < 0 \/ h.connect < 0 \/ h.read < 0

\* One attempt is answered with a.  An answer that is not to be retried is
\* returned; one that is, spends the budgets and is tried again, or, the
\* budgets spent, raises: ConnectionError for a failure of the connection,
\* RetryError for a status.
HttpAttempt(a) ==
    /\ http.state = "sending"
    /\ LET seen == [http EXCEPT !.trace = Append(@, a)]
           next == Increment(seen, a)
       IN  http' =
             IF a.err = "" /\ ~IsRetry(http.total, a.status, a.retry_after)
             THEN [seen EXCEPT !.state = "done", !.outcome = Response(a.status, "payload")]
             ELSE IF IsExhausted(next)
             THEN [next EXCEPT !.state = "done",
                               !.outcome = Raised(IF a.err # "" THEN "ConnectionError"
                                                  ELSE "RetryError")]
             ELSE next
    /\ UNCHANGED <<movies, similarity, rec, cache, gw, recency, track, history, calls, app, provider>>

\* ---------------------------------------------------------------- update_history
\* The list keeps five ids.
HistoryMax == 5

\* Lines 249-252: the list after update_history(imdb_id).
HistoryAfterNoRepeat(h, imdb_id) ==
    IF \E k \in 1..Len(h) : h[k] = imdb_id THEN h
    ELSE LET a == Append(h, imdb_id)
         IN  IF Len(a) > HistoryMax THEN Tail(a) ELSE a
HistoryAfter(h, imdb_id) ==
    IF h = <<>> \/ h[Len(h)] # imdb_id
    THEN LET a == Append(h, imdb_id)
         IN  IF Len(a) > HistoryMax THEN Tail(a) ELSE a
    ELSE h

UpdateHistory(imdb_id) ==
    /\ Len(calls) < MaxCalls
    /\ history' = HistoryAfter(history, imdb_id)
    /\ calls' = Append(calls, imdb_id)
    /\ UNCHANGED <<movies, similarity, rec, cache, gw, recency, track, http, app, provider>>

\* ------------------------------------------------------------------ recommend
\* list(enumerate(similarity[index])): the columns of a row with their scores.
Enumerate(row) == [j \in 1..Len(row) |-> [col |-> j, score |-> row[j]]]

\* sorted(..., reverse=True, key=lambda x: x[1]) is stable: among equal
\* scores the earlier element stays first.  One element put in its place
\* in a sequence already sorted: after every element of at least its score.
InsertDescUnstable(t, e) ==
    LET k == Cardinality({i \in 1..Len(t) : t[i].score > e.score})
    IN  SubSeq(t, 1, k) \o <<e>> \o SubSeq(t, k + 1, Len(t))
InsertDesc(t, e) ==
    LET k == Cardinality({i \in 1..Len(t) : t[i].score >= e.score})
    IN  SubSeq(t, 1, k) \o <<e>> \o SubSeq(t, k + 1, Len(t))

RECURSIVE SortedDesc(_)
SortedDesc(s) ==
    IF s = <<>> THEN <<>>
    ELSE InsertDesc(SortedDesc(SubSeq(s, 1, Len(s) - 1)), s[Len(s)])

\* distances[1:6]: skip the first, take the next five (fewer if there are
\* fewer).  SliceKeepFirst is distances[0:5] and SliceOneMore is
\* distances[1:7], the two slices the code does not take.
SliceKeepFirst(d) == SubSeq(d, 1, Min(TopN, Len(d)))
SliceOneMore(d) == SubSeq(d, 2, Min(TopN + 2, Len(d)))
Slice(d) == SubSeq(d, 2, Min(TopN + 1, Len(d)))

\* movies[movies["original_title"] == movie_title].index: the matching rows.
Matches(title) == {i \in 1..Len(movies) : movies[i].original_title = title}
FirstMatch(title) == CHOOSE i \in Matches(title) : \A k \in Matches(title) : i <= k

\* The answers of the provider during one request: all well, or an outage.
Envs == {"up", "down"}
EnvOutcome(env) == IF env = "up" THEN Response(200, "ok") ELSE Raised("ConnectionError")

\* The loop of lines 227-235 over the entries left, with the cache, the
\* recommendations so far and the number of gateway calls made.
RECURSIVE Enrich(_, _, _, _, _)
Enrich(picks, c, env, acc, n) ==
    IF picks = <<>> THEN [status |-> "ok", list |-> acc, cache |-> c, fetches |-> n]
    ELSE IF Head(picks).col > Len(movies)
    THEN [status |-> "IndexError", list |-> <<>>, cache |-> c, fetches |-> n]
    ELSE LET row == movies[Head(picks).col]
             p == FetchPoster(c, row.imdb_id, EnvOutcome(env), EnvOutcome(env))
             t == FetchTrailer(p.cache, row.imdb_id, EnvOutcome(env), EnvOutcome(env))
         IN  IF p.exc # ""
             THEN [status |-> p.exc, list |-> <<>>, cache |-> p.cache, fetches |-> n + 1]
             ELSE IF t.exc # ""
             THEN [status |-> t.exc, list |-> <<>>, cache |-> t.cache, fetches |-> n + 2]
             ELSE Enrich(Tail(picks), t.cache, env,
                         Append(acc, [title |-> row.original_title,
                                      poster |-> p.value, trailer |-> t.value]),
                         n + 2)

\* The row recommend works on: .index[0] of the matching rows, 0 standing
\* for the IndexError of an empty match.
LookupAny(title) == IF Matches(title) = {} THEN 1 ELSE FirstMatch(title)
Lookup(title) == IF Matches(title) = {} THEN 0 ELSE FirstMatch(title)

\* recommend(movie_title), lines 223-236.
RecommendResult(title, c, env) ==
    LET index == Lookup(title)
    IN  IF index = 0 \/ index > Len(similarity)
        THEN [status |-> "IndexError", list |-> <<>>, cache |-> c, fetches |-> 0]
        ELSE Enrich(Slice(SortedDesc(Enumerate(similarity[index]))), c, env, <<>>, 0)

Idle == [status |-> "idle", title |-> "", index |-> 0, list |-> <<>>, fetches |-> 0]

Recommend(title, env) ==
    /\ app.phase = "serving"
    /\ rec.status = "idle"
    /\ LET r == RecommendResult(title, cache, env)
       IN  /\ rec' = [status |-> r.status, title |-> title, index |-> Lookup(title),
                      list |-> r.list, fetches |-> r.fetches]
           /\ cache' = r.cache
    /\ UNCHANGED <<movies, similarity, gw, recency, track, otherVars>>

\* A run that got past the load (line 213) with table t and matrix s.
Serving(t, s) ==
    [phase |-> "serving", error |-> "",
     table |-> [kind |-> "pickle", obj |-> t], matrix |-> [kind |-> "pickle", obj |-> s]]

\* The table of n rows, and the matrices of m rows and m columns whose rows
\* are all the row r: recommend reads one row, and every row index meets
\* every row content.
Table(n) == [i \in 1..n |-> [original_title |-> Titles[i], imdb_id |-> ImdbIds[i]]]
Matrix(m, r) == [i \in 1..m |-> r]

\* The artifacts as loaded (lines 176-188: no shape is checked), before the
\* first request: a matrix as long as the table with any scores, or one a
\* row longer or shorter than the table with scores 0 and 1.
InitRec ==
    /\ \E m \in 1..MaxSim :
         \/ \E r \in [1..m -> 0..MaxScore] :
               /\ movies = Table(m)
               /\ similarity = Matrix(m, r)
         \/ \E n \in {m - 1, m + 1} \ {0} : \E r \in [1..m -> 0..1] :
               /\ movies = Table(n)
               /\ similarity = Matrix(m, r)
    /\ rec = Idle
    /\ cache = <<>>
    /\ gw = GwIdle
    /\ recency = <<>>
    /\ track = <<>>
    /\ http = HttpIdle
    /\ history = <<>>
    /\ calls = <<>>
    /\ app = Serving(movies, similarity)
    /\ provider = AllFields("present")

NextRec ==
    \E title \in {movies[i].original_title : i \in 1..Len(movies)} \cup {NoSuchTitle} :
        \E env \in Envs : Recommend(title, env)

SpecRec == InitRec /\ [][NextRec]_vars

\* ------------------------------------------------- claims about recommend
\* The row a recommendation came from (titles are unique in Table(n)).
RowOfTitle(title) == FirstMatch(title)
RecRows == [p \in 1..Len(rec.list) |-> RowOfTitle(rec.list[p].title)]
\* The place of column j in the ranking of a row: behind every column of a
\* higher score and every earlier column of the same score.
Rank(row, j) ==
    1 + Cardinality({k \in 1..Len(row) : row[k] > row[j]})
      + Cardinality({k \in 1..(j - 1) : row[k] = row[j]})
Answered == rec.status = "ok"
Aligned == Len(similarity) = Len(movies)

\* C1: the recommendations for the movie at row i never contain row i, also
\* when another column of row i scores as much as or more than column i.
C1_NeverSelf ==
    (Answered /\ Aligned) => \A p \in 1..Len(rec.list) : RecRows[p] # rec.index

\* C2: the recommendations are in descending order of score, equal scores
\* in ascending row order, and they are a function of the row alone: the
\* p-th recommendation is the column ranked p + 1 in the queried row.
C2_SortedStable ==
    Answered =>
        LET row == similarity[rec.index]
        IN  /\ \A p \in 1..Len(rec.list) : Rank(row, RecRows[p]) = p + 1
            /\ \A p, q \in 1..Len(rec.list) :
                  p < q => \/ row[RecRows[p]] > row[RecRows[q]]
                           \/ /\ row[RecRows[p]] = row[RecRows[q]]
                              /\ RecRows[p] < RecRows[q]

\* C2 witness: an answer that holds a tie and a strict descent.
C2_Witness ==
    /\ Answered
    /\ Len(rec.list) >= 3
    /\ LET row == similarity[rec.index]
       IN  /\ \E p \in 1..(Len(rec.list) - 1) : row[RecRows[p]] = row[RecRows[p + 1]]
           /\ \E p \in 1..(Len(rec.list) - 1) : row[RecRows[p]] > row[RecRows[p + 1]]

\* C3 as stated: whatever count is asked for, a matrix of at least
\* count + 1 columns gives exactly count recommendations.
C3_ExactlyCount ==
    (Answered /\ Aligned) =>
        \A count \in 1..MaxSim :
            Len(similarity[rec.index]) >= count + 1 => Len(rec.list) = count

\* C3 as amended: recommend takes no count; it returns five recommendations
\* when the matrix has at least six columns, and one per other column when
\* it has fewer.
C3_ExactlyFive ==
    Answered => Len(rec.list) = Min(TopN, Len(similarity[rec.index]) - 1)

\* C3 witness: five recommendations out of more than six columns.
C3_Witness ==
    /\ Answered
    /\ Len(similarity[rec.index]) > TopN + 1
    /\ Len(rec.list) = TopN

\* C4: for a title of the table and a matrix as long as the table, fewer
\* than count + 1 columns give fewer than count recommendations, no
\* exception, and no row twice.
C4_FewColumns ==
    (rec.status # "idle" /\ Matches(rec.title) # {} /\ Aligned) =>
        \A count \in 1..(MaxSim + 1) :
            Len(similarity[rec.index]) < count + 1 =>
                /\ Answered
                /\ Len(rec.list) < count
                /\ \A p, q \in 1..Len(rec.list) : p # q => RecRows[p] # RecRows[q]

\* C4 witness: a matrix too narrow for five, answered with what it has.
C4_Witness ==
    /\ Answered /\ Aligned
    /\ Len(similarity[rec.index]) < TopN + 1
    /\ Len(rec.list) >= 2

\* C5: a title that matches no row ends the request with an exception, with
\* no recommendation and before any gateway call.
C5_NoMatchRaises ==
    (rec.status # "idle" /\ Matches(rec.title) = {}) =>
        /\ rec.status = "IndexError"
        /\ rec.list = <<>>
        /\ rec.fetches = 0
        /\ cache = <<>>

\* C5 witness: the request for a title the table does not hold has ended.
C5_Witness ==
    /\ rec.title = NoSuchTitle
    /\ rec.status = "IndexError"

\* ------------------------------------------------------- the gateway alone
\* The ids the gateway is called with: the empty string and two imdb ids.
GwIds == {"", ImdbIds[1], ImdbIds[2]}

\* A process that has loaded its artifacts and is called through its gateway.
InitGw ==
    /\ movies = Table(2)
    /\ similarity = Matrix(2, <<1, 1>>)
    /\ rec = Idle
    /\ cache = <<>>
    /\ gw = GwIdle
    /\ recency = <<>>
    /\ track = <<>>
    /\ http = HttpIdle
    /\ history = <<>>
    /\ calls = <<>>
    /\ app = Serving(movies, similarity)
    /\ provider \in {AllFields(st) : st \in FieldStates}

NextGw ==
    \E id \in GwIds : \E oFind \in FindOutcomes(id) :
        \/ ResolveCall(id, oFind)
        \/ \E oGet \in GetOutcomes(id, oFind, MovieBodies) : PosterCall(id, oFind, oGet)
        \/ \E oGet \in GetOutcomes(id, oFind, VideoBodies) : TrailerCall(id, oFind, oGet)
        \/ \E oGet \in GetOutcomes(id, oFind, DetailBodies \cap {"badjson", BodyOf(provider)}) :
              \E d \in Directors : DetailsCall(id, d, oFind, oGet)

SpecGw == InitGw /\ [][NextGw]_vars

\* ------------------------------------------------- the resolution cache alone
\* The ids resolved: the empty string and enough imdb ids to overflow the
\* cache.
CacheIds == {""} \cup {ImdbIds[i] : i \in 1..(maxsize + 1)}

InitCache ==
    /\ movies = Table(maxsize + 1)
    /\ similarity = Matrix(maxsize + 1, [j \in 1..(maxsize + 1) |-> 1])
    /\ rec = Idle
    /\ cache = <<>>
    /\ gw = GwIdle
    /\ recency = <<>>
    /\ track = [x \in CacheIds |-> Untracked(FALSE)]
    /\ http = HttpIdle
    /\ history = <<>>
    /\ calls = <<>>
    /\ app = Serving(movies, similarity)
    /\ provider = AllFields("present")

NextCache ==
    \E id \in CacheIds : \E oFind \in FindOutcomes(id) : ResolveTracked(id, oFind)

SpecCache == InitCache /\ [][NextCache]_vars

\* -------------------------------------------------- claims about the gateway
\* What a GET ends in when it fails the call: the exceptions of the session,
\* a status other than 200, a body that is not JSON, and a 200 body without
\* the field the call returns (no movie_results, no id, no poster_path, no
\* YouTube trailer, a trailer without key, a null where a number or a list
\* is computed with).  A details body whose optional fields are absent is
\* answered with a bundle of placeholders and is no failure.
FailClasses ==
    {"ConnectionError", "RetryError", "non200", "badjson", "missing", "noid",
     "nokey", "null"}

\* C6: whichever of the four gateway operations is called and however its
\* GETs end, no exception reaches the caller, and a GET that ended in a
\* failure makes the operation return None.
C6_NoneNoRaise ==
    gw.op # "none" =>
        /\ gw.exc = ""
        /\ (gw.cFind \in FailClasses \/ gw.cGet \in FailClasses) => gw.value = None

\* C6 witness: a trailer whose entry has no key (KeyError inside the try)
\* came back as None.
C6_Witness ==
    /\ gw.op = "trailer"
    /\ gw.cGet = "nokey"
    /\ gw.exc = ""
    /\ gw.value = None

\* ------------------------------------------ claims about the resolution cache
\* The n most recently resolved ids, least recent first.
MostRecent(n) == SubSeq(recency, Len(recency) - Min(n, Len(recency)) + 1, Len(recency))
MostRecentIds(n) == {MostRecent(n)[k] : k \in 1..Len(MostRecent(n))}

\* C8: an imdb id (not the empty string, which is answered without a GET)
\* resolved once or more since it was last evicted has cost exactly one find
\* GET, and every resolution after the first returned the first's value.
C8_OneCall ==
    \A x \in DOMAIN track :
        (x # "" /\ track[x].resolves >= 1) =>
            /\ track[x].out = 1
            /\ (gw.id = x /\ track[x].resolves >= 2) =>
                  /\ gw.cFind = "none"
                  /\ gw.value = track[x].first

\* C8 witness: a second resolution of an id whose first one failed.
C8_Witness ==
    \E x \in DOMAIN track :
        /\ x # "" /\ gw.id = x
        /\ track[x].resolves = 2 /\ track[x].out = 1
        /\ track[x].first = None /\ gw.value = None

\* C9, in every state: the cache holds at most maxsize entries, and they are
\* the maxsize most recently resolved ids, least recent first.
C9_State ==
    /\ Len(cache) <= maxsize
    /\ [k \in 1..Len(cache) |-> cache[k].key] = MostRecent(maxsize)

\* C9, in every step: a resolution makes a find GET exactly when its id is
\* not empty and not among the maxsize most recently resolved ids, and the
\* id it drops from a full cache is the least recently resolved of them.
C9_Step ==
    /\ (gw'.cFind # "none") <=> (gw'.id # "" /\ gw'.id \notin MostRecentIds(maxsize))
    /\ \A x \in CacheKeys(cache) \ CacheKeys(cache') :
          /\ Len(cache) = maxsize
          /\ x = MostRecent(maxsize)[1]
          /\ gw'.id \notin CacheKeys(cache)

\* C9: the resolution cache is bounded by its capacity and evicts the least
\* recently used id, which alone costs a new GET when resolved again.
C9_BoundedLRU == []C9_State /\ [][C9_Step]_vars

\* C9 witness: an id that was evicted has been resolved again, with a GET,
\* into a full cache.
C9_Witness ==
    \E x \in DOMAIN track :
        /\ track[x].evicted /\ gw.id = x /\ gw.cFind # "none"
        /\ x \in CacheKeys(cache)
        /\ Len(cache) = maxsize

\* ------------------------------------------------------- the session alone
InitHttp ==
    /\ movies = Table(2)
    /\ similarity = Matrix(2, <<1, 1>>)
    /\ rec = Idle
    /\ cache = <<>>
    /\ gw = GwIdle
    /\ recency = <<>>
    /\ track = <<>>
    /\ http = HttpIdle
    /\ history = <<>>
    /\ calls = <<>>
    /\ app = Serving(movies, similarity)
    /\ provider = AllFields("present")

NextHttp == HttpGet \/ \E a \in Answers : HttpAttempt(a)

SpecHttp == InitHttp /\ [][NextHttp]_vars

\* --------------------------------------------------- the viewed list alone
\* Lines 22-23: a session starts with an empty list.
InitHistory ==
    /\ movies = Table(NumViewed)
    /\ similarity = Matrix(NumViewed, [j \in 1..NumViewed |-> 1])
    /\ rec = Idle
    /\ cache = <<>>
    /\ gw = GwIdle
    /\ recency = <<>>
    /\ track = <<>>
    /\ http = HttpIdle
    /\ history = <<>>
    /\ calls = <<>>
    /\ app = Serving(movies, similarity)
    /\ provider = AllFields("present")

NextHistory == \E i \in 1..NumViewed : UpdateHistory(movies[i].imdb_id)

SpecHistory == InitHistory /\ [][NextHistory]_vars

\* -------------------------------------------------- claims about the session
\* The answers that were followed by another attempt.
Retried == SubSeq(http.trace, 1, Len(http.trace) - 1)
Repeated(a, n) == [k \in 1..n |-> a]
\* The session tries again at most `retries` times.
C7_Budget == Len(http.trace) <= retries + 1
\* 500 answered retries - 1 times and then 200: the call returns the 200
\* response.  404 answered first: one attempt, and the 404 is what the call
\* returns (the callers turn it into None).
C7_Scenarios ==
    /\ http.trace = Repeated(Answer(500, FALSE), retries - 1) \o <<Answer(200, FALSE)>>
          => http.state = "done" /\ http.outcome = Response(200, "payload")
    /\ (http.trace # <<>> /\ http.trace[1].status = 404)
          => /\ Len(http.trace) = 1
             /\ http.state = "done"
             /\ http.outcome = Response(404, "payload")

\* C7 as stated: only a connection failure and a 500, 502 or 504 are ever
\* followed by another attempt, at most `retries` times; the 500s-then-200
\* call succeeds and the 404 call is attempted once.
C7_RetriesOnlyForcelist ==
    /\ \A k \in 1..Len(Retried) :
          Retried[k].err # "" \/ Retried[k].status \in status_forcelist
    /\ C7_Budget
    /\ C7_Scenarios

\* C7 as amended: what is followed by another attempt is a connection
\* failure, a 500, 502 or 504, or a 413, 429 or 503 that carries a
\* Retry-After header; the rest as stated.
C7_RetryPolicy ==
    /\ \A k \in 1..Len(Retried) :
          \/ Retried[k].err # ""
          \/ Retried[k].status \in status_forcelist
          \/ Retried[k].retry_after /\ Retried[k].status \in RETRY_AFTER_STATUS_CODES
    /\ C7_Budget
    /\ C7_Scenarios

\* C7 witness: the call answered 500 four times and then 200 has returned.
C7_Witness ==
    /\ http.state = "done"
    /\ http.trace = Repeated(Answer(500, FALSE), retries - 1) \o <<Answer(200, FALSE)>>
    /\ http.outcome.status = 200

\* ---------------------------------------------- claims about the viewed list
\* A sequence without its immediate repetitions.
RECURSIVE Collapse(_)
Collapse(s) ==
    IF Len(s) <= 1 THEN s
    ELSE LET c == Collapse(SubSeq(s, 1, Len(s) - 1))
         IN  IF c[Len(c)] = s[Len(s)] THEN c ELSE Append(c, s[Len(s)])
\* The last n elements of a sequence, or all of them.
LastN(s, n) == SubSeq(s, Len(s) - Min(n, Len(s)) + 1, Len(s))

\* C10: after any calls of update_history from an empty list, the list is
\* the last five, oldest first, of the ids it was called with, immediate
\* repetitions taken once; it never holds more than five.
C10_History ==
    /\ history = LastN(Collapse(calls), HistoryMax)
    /\ Len(history) <= HistoryMax

\* C10 witness: a repetition was dropped, more than five ids were appended,
\* and the list holds an id twice, apart.
C10_Witness ==
    /\ Len(Collapse(calls)) < Len(calls)
    /\ Len(Collapse(calls)) > HistoryMax
    /\ Len(history) = HistoryMax
    /\ \E i, j \in 1..Len(history) : i + 1 < j /\ history[i] = history[j]

\* ------------------------------------------------------------------ Load Data
\* A path on disk: no file there, a file that is no pickle, or the pickle
\* of an object.
NoFile == [kind |-> "absent", obj |-> None]
NoPickle == [kind |-> "garbage", obj |-> None]
Pickle(obj) == [kind |-> "pickle", obj |-> obj]
\* pickle.load(open(p, "rb")).
PickleLoad(f) ==
    IF f.kind = "absent" THEN Exc("FileNotFoundError")
    ELSE IF f.kind = "garbage" THEN Exc("UnpicklingError")
    ELSE Val(f.obj)

\* A table of n rows that lacks the column col.
TableWithout(n, col) ==
    [i \in 1..n |->
        IF col = "original_title" THEN [imdb_id |-> ImdbIds[i]]
        ELSE [original_title |-> Titles[i]]]
\* movies.columns (every table has a row).
Columns(t) == DOMAIN t[1]

\* The movie_list.pkl and similarity.pkl a run can find.
TableFiles ==
    {NoFile, NoPickle}
        \cup {Pickle(Table(n)) : n \in 1..MaxLoad}
        \cup {Pickle(TableWithout(1, col)) : col \in {"original_title", "imdb_id"}}
MatrixFiles ==
    {NoFile, NoPickle}
        \cup UNION {{Pickle(Matrix(m, r)) : r \in [1..m -> 0..1]} : m \in 1..MaxLoad}

\* Lines 166-168: nothing is loaded yet.
Loading(t, s) == [phase |-> "loading", error |-> "", table |-> t, matrix |-> s]
\* st.error(msg) followed by st.stop().
Halted(a, msg) == [a EXCEPT !.phase = "halted", !.error = msg]

\* Lines 176-213.  Each load is tried and its exception kept aside, the name
\* staying None; the run stops when a name is None or the table lacks one of
\* the two columns.  Nothing compares the matrix with the table.  The two
\* columns hold strings, which astype(str) leaves as they are.
LoadData(a) ==
    LET m == Catch(PickleLoad(a.table)).value
        s == Catch(PickleLoad(a.matrix)).value
    IN  [movies |-> m, similarity |-> s,
         app |-> IF m = None \/ s = None
                 THEN Halted(a, "Could not load movie_list.pkl or similarity.pkl. Check paths/files.")
                 ELSE IF "original_title" \notin Columns(m)
                 THEN Halted(a, "The movies dataframe must contain an 'original_title' column.")
                 ELSE IF "imdb_id" \notin Columns(m)
                 THEN Halted(a, "The movies dataframe must contain an 'imdb_id' column.")
                 ELSE [a EXCEPT !.phase = "serving"]]

\* The script runs its load.
Load ==
    /\ app.phase = "loading"
    /\ LET l == LoadData(app)
       IN  /\ movies' = l.movies
           /\ similarity' = l.similarity
           /\ app' = l.app
    /\ UNCHANGED <<rec, cache, gw, recency, track, http, history, calls, provider>>

\* The page asks for the recommendations of a title it offers, or of one it
\* does not.
Request ==
    /\ app.phase = "serving"
    /\ \E title \in {movies[i].original_title : i \in 1..Len(movies)} \cup {NoSuchTitle} :
          \E env \in Envs : Recommend(title, env)

InitLoad ==
    /\ \E t \in TableFiles : \E s \in MatrixFiles : app = Loading(t, s)
    /\ movies = None
    /\ similarity = None
    /\ rec = Idle
    /\ cache = <<>>
    /\ gw = GwIdle
    /\ recency = <<>>
    /\ track = <<>>
    /\ http = HttpIdle
    /\ history = <<>>
    /\ calls = <<>>
    /\ provider = AllFields("present")

NextLoad == Load \/ Request

SpecLoad == InitLoad /\ [][NextLoad]_vars

\* ---------------------------------------------------- claims about the load
\* The artifacts a run must not serve from: a file that does not load, a
\* table without one of its two columns, a matrix whose number of rows is
\* not the table's.
Unloadable(a) == a.table.kind # "pickle" \/ a.matrix.kind # "pickle"
LacksColumn(a) ==
    /\ ~Unloadable(a)
    /\ ~({"original_title", "imdb_id"} \subseteq Columns(a.table.obj))
RowsDiffer(a) == ~Unloadable(a) /\ Len(a.matrix.obj) # Len(a.table.obj)

\* C11: once the load has run, artifacts that are missing, malformed or of
\* different row counts have halted the run with an error shown, no request
\* is served in a halted run, and no recommendation is computed from a
\* matrix whose row count is not the table's.
C11_HaltsOnBadArtifacts ==
    /\ (app.phase # "loading" /\ (Unloadable(app) \/ LacksColumn(app) \/ RowsDiffer(app)))
          => (app.phase = "halted" /\ app.error # "")
    /\ app.phase = "halted" => rec = Idle
    /\ rec.status # "idle" => Len(similarity) = Len(movies)

\* ------------------------------------------------------- the details alone
\* The details of one movie are asked for, again and again, from a provider
\* whose JSON for it has any of its optional fields there, absent or null.
InitDetails ==
    /\ provider \in DetailData
    /\ movies = Table(1)
    /\ similarity = Matrix(1, <<1>>)
    /\ rec = Idle
    /\ cache = <<>>
    /\ gw = GwIdle
    /\ recency = <<>>
    /\ track = <<>>
    /\ http = HttpIdle
    /\ history = <<>>
    /\ calls = <<>>
    /\ app = Serving(movies, similarity)

NextDetails ==
    \E oFind \in FindOutcomes(ImdbIds[1]) :
        \E oGet \in GetOutcomes(ImdbIds[1], oFind, DetailBodies \cap {"badjson", BodyOf(provider)}) :
            \E d \in Directors : DetailsCall(ImdbIds[1], d, oFind, oGet)

SpecDetails == InitDetails /\ [][NextDetails]_vars

\* ------------------------------------------------- claims about the details
\* The details GET was answered with HTTP 200 and a JSON body.
DetailsAnswered == gw.op = "details" /\ gw.cGet \in {"ok", "absent", "null"}
\* What a field of the bundle is to hold: its value x when the JSON has the
\* field, its placeholder when the field is absent or null.
Degraded(f, x, placeholder) == IF provider[f] = "present" THEN x ELSE placeholder

\* C12: when the details GET is answered with HTTP 200, a bundle is
\* returned whatever optional fields are absent or null, and each field of
\* the bundle holds its value or, on its own, its placeholder.
C12_FieldsDegrade ==
    DetailsAnswered =>
        /\ gw.exc = ""
        /\ gw.value # None
        /\ gw.value.rating = Degraded("vote_average", "vote_average", "None")
        /\ gw.value.genres = Degraded("genres", "joined names", "N/A")
        /\ gw.value.budget = Degraded("budget", "${budget:,}", "N/A")
        /\ gw.value.revenue = Degraded("revenue", "${revenue:,}", "N/A")
        /\ gw.value.available_in = Degraded("spoken_languages", "joined english_names", "N/A")
        /\ IF provider["cast"] # "present" THEN gw.value.cast = <<>>
           ELSE /\ Len(gw.value.cast) = 1
                /\ gw.value.cast[1].name = Degraded("name", "name", "None")
                /\ gw.value.cast[1].profile =
                      Degraded("profile_path", "https://image.tmdb.org/t/p/w500{profile_path}", "None")

\* ------------------------------------------ the gateway and a changing provider
\* The gateway is called while the provider has, at every call, any answer
\* for the find GET, whether the call comes to make that GET or not.
InitMemo ==
    /\ movies = Table(2)
    /\ similarity = Matrix(2, <<1, 1>>)
    /\ rec = Idle
    /\ cache = <<>>
    /\ gw = GwIdle
    /\ recency = <<>>
    /\ track = <<>>
    /\ http = HttpIdle
    /\ history = <<>>
    /\ calls = <<>>
    /\ app = Serving(movies, similarity)
    /\ provider = AllFields("present")

NextMemo ==
    \E id \in GwIds : \E oFind \in Outcomes(FindBodies) :
        \/ ResolveCall(id, oFind)
        \/ \E oGet \in GetOutcomes(id, oFind, MovieBodies) : PosterCall(id, oFind, oGet)
        \/ \E oGet \in GetOutcomes(id, oFind, VideoBodies) : TrailerCall(id, oFind, oGet)
        \/ \E oGet \in GetOutcomes(id, oFind, {"badjson", "ok"}) :
              \E d \in Directors : DetailsCall(id, d, oFind, oGet)

SpecMemo == InitMemo /\ [][NextMemo]_vars

\* ------------------------------------------ claims about failed resolutions
\* The id is in the cache with None for its value.
CachedNone(c, x) == x \in CacheKeys(c) /\ c[CachePos(c, x)].value = None

\* C13, in every state: a call whose resolution failed (the empty id, no
\* match or no id in the answer, a status other than 200, an exception of
\* the session or of the parse) has left None for the id in the cache, and
\* a resolve that returned None has.
C13_Stored ==
    gw.op # "none" =>
        /\ (gw.id = "" \/ gw.cFind \in FailClasses) => CachedNone(cache, gw.id)
        /\ (gw.op = "resolve" /\ gw.value = None) => CachedNone(cache, gw.id)

\* C13, in every step: a call for an id that is in the cache with None
\* returns None and makes no GET, whatever the provider has for it now.
C13_Step ==
    CachedNone(cache, gw'.id) =>
        /\ gw'.exc = ""
        /\ gw'.value = None
        /\ gw'.cFind = "none"
        /\ gw'.cGet = "none"
        /\ CachedNone(cache', gw'.id)

\* C13: failed resolutions are memoized like successful ones, for the
\* resolve and for the poster, the trailer and the details of the id.
C13_FailuresMemoized == []C13_Stored /\ [][C13_Step]_vars

\* C13 witness: the poster of an id whose resolution had failed came back
\* None without a GET while the provider had a match for the id.
C13_Witness ==
    /\ gw.op = "poster" /\ gw.id # ""
    /\ gw.pFind = "ok"
    /\ gw.cFind = "none" /\ gw.cGet = "none"
    /\ gw.value = None
    /\ CachedNone(cache, gw.id)

====
